---- MODULE Spec2Model ----
(***************************************************************************)
(* Model of the JerryScript heap allocator (jerry-core/jmem/jmem-heap.c).  *)
(*                                                                         *)
(* Memory is a map from the 8-byte slots of jmem_heap (the sentinel        *)
(* jmem_heap.first and every JMEM_ALIGNMENT unit of jmem_heap.area) to the *)
(* two words a jmem_heap_free_t overlays on them.  Pointers are integers.  *)
(* TLC integers are 32 bits wide, so the machine word is scaled down to    *)
(* WordBits bits; every uint32_t / size_t computation is taken modulo the  *)
(* scaled width.  The build is either the narrow one (UINTPTR_MAX <=       *)
(* UINT32_MAX: an offset is the raw pointer) or the wide one (an offset    *)
(* is the distance from jmem_heap.area); Init picks one.  In both, the     *)
(* heap is linked below the address JMEM_HEAP_END_OF_LIST, the layout in   *)
(* which the offset of the end marker converts back to the end marker.     *)
(***************************************************************************)
EXTENDS Integers, Sequences, FiniteSets, TLC

VARIABLES
  wide,                      \* TRUE: build with UINTPTR_MAX > UINT32_MAX
  mem,                       \* jmem_heap: slot address -> [next_offset, size]
  jmem_heap_allocated_size,
  jmem_heap_limit,
  jmem_heap_list_skip_p,
  live,                      \* blocks the client holds: [ptr, size, stored]
  pc,                        \* position inside the current allocation request
  req,                       \* the request in progress: [kind, size] and what
                             \* held when it started
  ret,                       \* value returned by the last completed allocation
  events,                    \* reclamation calls and attempts of the last request
  assert_failed,             \* some JERRY_ASSERT condition was false
  cp,                        \* pointer compression calls: what the caller started
                             \* with, the calls made, the pointer and code at hand
  jmem_heap_stats            \* the statistics of a build with JMEM_STATS

vars == <<wide, mem, jmem_heap_allocated_size, jmem_heap_limit,
          jmem_heap_list_skip_p, live, pc, req, ret, events, assert_failed, cp,
          jmem_heap_stats>>

(***************************************************************************)
(* Bounds of the model                                                     *)
(***************************************************************************)
HeapUnits == 5
MaxReqUnits == 3
CONFIG_MEM_HEAP_DESIRED_LIMIT == 16
WordBits == 12
CpMaxPtrWords == 24
CpMaxCode == 12

(***************************************************************************)
(* Configuration and layout                                                *)
(***************************************************************************)
JMEM_ALIGNMENT_LOG == 3
JMEM_ALIGNMENT == 2 ^ JMEM_ALIGNMENT_LOG
JMEM_HEAP_AREA_SIZE == HeapUnits * JMEM_ALIGNMENT
JMEM_HEAP_SIZE == JMEM_HEAP_AREA_SIZE + JMEM_ALIGNMENT

UINT32_MOD == 2 ^ WordBits          \* modulus of uint32_t
SIZE_MOD == IF wide THEN 2 ^ (2 * WordBits) ELSE 2 ^ WordBits   \* modulus of size_t

NULL == 0
SizeofFree == 4 + 4                          \* sizeof (jmem_heap_free_t): two uint32_t
jmem_heap == 2 * JMEM_ALIGNMENT              \* &jmem_heap, an aligned link-time address
first_p == jmem_heap                         \* &jmem_heap.first
area == jmem_heap + SizeofFree               \* jmem_heap.area
JMEM_HEAP_END_OF_LIST == UINT32_MOD - 1      \* ~((uint32_t) 0x0) as a pointer

AreaSlots == {area + k * JMEM_ALIGNMENT : k \in 0 .. (HeapUnits - 1)}
Slots == {first_p} \cup AreaSlots
BadPtr == 0 - 1

JMEM_HEAP_GET_OFFSET_FROM_ADDR(p) ==
  IF wide THEN (p - area) % UINT32_MOD ELSE p % UINT32_MOD

JMEM_HEAP_GET_ADDR_FROM_OFFSET(u) ==
  IF wide THEN area + u ELSE u

EndOffset == JMEM_HEAP_GET_OFFSET_FROM_ADDR(JMEM_HEAP_END_OF_LIST)

jmem_is_heap_pointer(p) ==
  p >= area /\ p <= area + JMEM_HEAP_AREA_SIZE

jmem_heap_get_region_end(m, curr_p) == curr_p + m[curr_p].size

Junk == [next_offset |-> 0, size |-> 0]     \* contents of bytes handed to the client

(***************************************************************************)
(* The heap as a value: the operations are functions from heap to heap.    *)
(***************************************************************************)
Heap ==
  [mem |-> mem, allocated_size |-> jmem_heap_allocated_size,
   limit |-> jmem_heap_limit, list_skip_p |-> jmem_heap_list_skip_p,
   bad |-> assert_failed, ptr |-> NULL, note |-> <<>>,
   stats |-> jmem_heap_stats]

SetHeap(h) ==
  /\ mem' = h.mem
  /\ jmem_heap_allocated_size' = h.allocated_size
  /\ jmem_heap_limit' = h.limit
  /\ jmem_heap_list_skip_p' = h.list_skip_p
  /\ assert_failed' = h.bad
  /\ jmem_heap_stats' = h.stats

\* jmem_heap_init
InitMem ==
  [s \in Slots |->
     IF s = first_p THEN [next_offset |-> JMEM_HEAP_GET_OFFSET_FROM_ADDR(area), size |-> 0]
     ELSE IF s = area THEN [next_offset |-> EndOffset, size |-> JMEM_HEAP_AREA_SIZE]
     ELSE Junk]

\* every request is served with a block of one alignment unit
AlignSizeOneUnit(size) ==
  JMEM_ALIGNMENT

\* Align size
AlignSize(size) ==
  (((size + JMEM_ALIGNMENT - 1) % SIZE_MOD) \div JMEM_ALIGNMENT) * JMEM_ALIGNMENT

\* mutant of GrowLimit: the limit is not raised
GrowLimitNever(allocated, limit) == limit

\* the limit is raised by one step at most
GrowLimitOneStep(allocated, limit) ==
  IF allocated >= limit
  THEN (limit + CONFIG_MEM_HEAP_DESIRED_LIMIT) % SIZE_MOD
  ELSE limit

\* while (jmem_heap_allocated_size >= jmem_heap_limit) limit += DESIRED_LIMIT
RECURSIVE GrowLimit(_, _)
GrowLimit(allocated, limit) ==
  IF allocated >= limit
  THEN GrowLimit(allocated, (limit + CONFIG_MEM_HEAP_DESIRED_LIMIT) % SIZE_MOD)
  ELSE limit

\* the limit is lowered by one step at most
ShrinkLimitOnce(allocated, limit) ==
  IF (allocated + CONFIG_MEM_HEAP_DESIRED_LIMIT) % SIZE_MOD <= limit
  THEN (limit - CONFIG_MEM_HEAP_DESIRED_LIMIT) % SIZE_MOD
  ELSE limit

\* while (allocated_size + DESIRED_LIMIT <= limit) limit -= DESIRED_LIMIT
RECURSIVE ShrinkLimit(_, _)
ShrinkLimit(allocated, limit) ==
  IF (allocated + CONFIG_MEM_HEAP_DESIRED_LIMIT) % SIZE_MOD <= limit
  THEN ShrinkLimit(allocated, (limit - CONFIG_MEM_HEAP_DESIRED_LIMIT) % SIZE_MOD)
  ELSE limit

\* the units of the block [p, p + n) that are slots of the area
BlockSlots(p, n) == {s \in AreaSlots : p <= s /\ s < p + n}

(***************************************************************************)
(* Heap memory usage statistics (JMEM_STATS)                               *)
(***************************************************************************)
\* bounds of the instrumented runs: operations counted, iterations counted
MaxStatOps == 6
MaxStatIters == 6

\* a build without JMEM_STATS has no jmem_heap_stats
NoStats ==
  [enabled |-> FALSE, size |-> 0,
   allocated_bytes |-> 0, waste_bytes |-> 0,
   peak_allocated_bytes |-> 0, peak_waste_bytes |-> 0,
   global_peak_allocated_bytes |-> 0, global_peak_waste_bytes |-> 0,
   skip_count |-> 0, nonskip_count |-> 0,
   alloc_count |-> 0, free_count |-> 0,
   alloc_iter_count |-> 0, free_iter_count |-> 0]

\* memset (&jmem_heap_stats, 0, ...); jmem_heap_stats.size = JMEM_HEAP_AREA_SIZE
jmem_heap_stat_init ==
  [NoStats EXCEPT !.enabled = TRUE, !.size = JMEM_HEAP_AREA_SIZE]

Max(a, b) == IF a > b THEN a ELSE b

\* the allocation is also accounted in jmem_heap_allocated_size
StatAllocCountsHeap(h, size) ==
  [h EXCEPT !.allocated_size = (@ + size) % SIZE_MOD,
            !.stats.alloc_count = (@ + 1) % SIZE_MOD]



\* Account allocation
jmem_heap_stat_alloc(h, size) ==
  LET aligned_size ==
        (((size + JMEM_ALIGNMENT - 1) % SIZE_MOD) \div JMEM_ALIGNMENT) * JMEM_ALIGNMENT
      waste_bytes == (aligned_size - size) % SIZE_MOD
      allocated == (h.stats.allocated_bytes + aligned_size) % SIZE_MOD
      waste == (h.stats.waste_bytes + waste_bytes) % SIZE_MOD
  IN [h EXCEPT !.stats.allocated_bytes = allocated,
               !.stats.waste_bytes = waste,
               !.stats.alloc_count = (@ + 1) % SIZE_MOD,
               !.stats.peak_allocated_bytes = Max(@, allocated),
               !.stats.global_peak_allocated_bytes = Max(@, allocated),
               !.stats.peak_waste_bytes = Max(@, waste),
               !.stats.global_peak_waste_bytes = Max(@, waste)]

\* Account freeing
jmem_heap_stat_free(h, size) ==
  LET aligned_size ==
        (((size + JMEM_ALIGNMENT - 1) % SIZE_MOD) \div JMEM_ALIGNMENT) * JMEM_ALIGNMENT
      waste_bytes == (aligned_size - size) % SIZE_MOD
  IN [h EXCEPT !.stats.free_count = (@ + 1) % SIZE_MOD,
               !.stats.allocated_bytes = (@ - aligned_size) % SIZE_MOD,
               !.stats.waste_bytes = (@ - waste_bytes) % SIZE_MOD]

\* Counts number of skip-aheads during insertion of free block
jmem_heap_stat_skip(h) ==
  [h EXCEPT !.stats.skip_count = (@ + 1) % SIZE_MOD]

\* Counts number of times we could not skip ahead during free block insertion
jmem_heap_stat_nonskip(h) ==
  [h EXCEPT !.stats.nonskip_count = (@ + 1) % SIZE_MOD]

\* Count number of iterations required for allocations
jmem_heap_stat_alloc_iter(h) ==
  [h EXCEPT !.stats.alloc_iter_count = (@ + 1) % SIZE_MOD]

\* Counts number of iterations required for inserting free blocks
jmem_heap_stat_free_iter(h) ==
  [h EXCEPT !.stats.free_iter_count = (@ + 1) % SIZE_MOD]

\* The macros: calls with JMEM_STATS, empty without
JMEM_HEAP_STAT_ALLOC(h, v1) ==
  IF h.stats.enabled THEN jmem_heap_stat_alloc(h, v1) ELSE h
JMEM_HEAP_STAT_FREE(h, v1) ==
  IF h.stats.enabled THEN jmem_heap_stat_free(h, v1) ELSE h
JMEM_HEAP_STAT_SKIP(h) ==
  IF h.stats.enabled THEN jmem_heap_stat_skip(h) ELSE h
JMEM_HEAP_STAT_NONSKIP(h) ==
  IF h.stats.enabled THEN jmem_heap_stat_nonskip(h) ELSE h
JMEM_HEAP_STAT_ALLOC_ITER(h) ==
  IF h.stats.enabled THEN jmem_heap_stat_alloc_iter(h) ELSE h
JMEM_HEAP_STAT_FREE_ITER(h) ==
  IF h.stats.enabled THEN jmem_heap_stat_free_iter(h) ELSE h

\* JMEM_HEAP_STAT_FREE_ITER called n times
RECURSIVE StatFreeIters(_, _)
StatFreeIters(h, n) ==
  IF n = 0 THEN h ELSE StatFreeIters(JMEM_HEAP_STAT_FREE_ITER(h), n - 1)

(***************************************************************************)
(* jmem_heap_alloc_block_internal                                          *)
(***************************************************************************)
\* mutants of RegionFits: the comparison reversed; an exact fit rejected
RegionFitsFlipped(region_size, required_size) == region_size <= required_size
RegionFitsStrict(region_size, required_size) == region_size > required_size

\* if (current_p->size >= required_size)
RegionFits(region_size, required_size) == region_size >= required_size

\* the fast path resets the hint to the sentinel, the predecessor of the region it takes
FastPathSkipToHead(m, data_space_p, skip_p) ==
  first_p

\* Fast path: if (data_space_p == jmem_heap_list_skip_p) skip_p = first.next
FastPathSkip(m, data_space_p, skip_p) ==
  IF data_space_p = skip_p
  THEN JMEM_HEAP_GET_ADDR_FROM_OFFSET(m[first_p].next_offset)
  ELSE skip_p

\* mutant of CarveFront: the remaining node keeps the size of the whole region
CarveFrontKeepSize(m, prev_p, current_p, required_size, next_offset) ==
  LET remaining_p == current_p + required_size IN
  [m EXCEPT ![remaining_p] = [size |-> m[current_p].size, next_offset |-> next_offset],
            ![prev_p].next_offset = JMEM_HEAP_GET_OFFSET_FROM_ADDR(remaining_p)]

\* the remaining node does not inherit the successor of the carved region
CarveFrontDropSuccessor(m, prev_p, current_p, required_size, next_offset) ==
  LET remaining_p == current_p + required_size IN
  [m EXCEPT ![remaining_p] = [size |-> (m[current_p].size - required_size) % UINT32_MOD,
                              next_offset |-> EndOffset],
            ![prev_p].next_offset = JMEM_HEAP_GET_OFFSET_FROM_ADDR(remaining_p)]

\* Region was larger than necessary: build the remaining node, link prev to it
CarveFront(m, prev_p, current_p, required_size, next_offset) ==
  LET remaining_p == current_p + required_size IN
  [m EXCEPT ![remaining_p] = [size |-> (m[current_p].size - required_size) % UINT32_MOD,
                              next_offset |-> next_offset],
            ![prev_p].next_offset = JMEM_HEAP_GET_OFFSET_FROM_ADDR(remaining_p)]

\* mutant of Unlink: the exactly fitting region stays on the list
UnlinkNot(m, prev_p, next_offset) == m

\* the exactly fitting region is removed together with everything after it
UnlinkDropRest(m, prev_p, next_offset) ==
  [m EXCEPT ![prev_p].next_offset = EndOffset]

\* Block is an exact fit: remove the region from the list
Unlink(m, prev_p, next_offset) ==
  [m EXCEPT ![prev_p].next_offset = next_offset]

FastPath(h) ==
  LET data_space_p == JMEM_HEAP_GET_ADDR_FROM_OFFSET(h.mem[first_p].next_offset) IN
  IF data_space_p \notin AreaSlots
  THEN [h EXCEPT !.bad = TRUE]
  ELSE
    LET node == h.mem[data_space_p]
        exact == node.size = JMEM_ALIGNMENT
        ok == exact \/ (node.size > JMEM_ALIGNMENT
                        /\ data_space_p + SizeofFree \in AreaSlots)
        remaining_p == data_space_p + SizeofFree      \* ADDR (first.next_offset) + 1
        m1 == IF exact THEN [h.mem EXCEPT ![first_p].next_offset = node.next_offset]
              ELSE IF ok
                   THEN [h.mem EXCEPT
                           ![remaining_p] =
                              [size |-> (node.size - JMEM_ALIGNMENT) % UINT32_MOD,
                               next_offset |-> node.next_offset],
                           ![first_p].next_offset =
                              JMEM_HEAP_GET_OFFSET_FROM_ADDR(remaining_p)]
                   ELSE h.mem
    IN JMEM_HEAP_STAT_ALLOC_ITER(
         [h EXCEPT !.mem = m1,
                   !.allocated_size = (h.allocated_size + JMEM_ALIGNMENT) % SIZE_MOD,
                   !.list_skip_p = FastPathSkip(m1, data_space_p, h.list_skip_p),
                   !.ptr = data_space_p,
                   !.bad = h.bad \/ ~ok])

RECURSIVE SlowPath(_, _, _, _, _)
SlowPath(h, prev_p, current_p, required_size, fuel) ==
  IF current_p = JMEM_HEAP_END_OF_LIST
  THEN h
  ELSE IF current_p \notin AreaSlots \/ fuel = 0
  THEN [h EXCEPT !.bad = TRUE]
  ELSE
    LET next_offset == h.mem[current_p].next_offset
        next_ok == \/ jmem_is_heap_pointer(JMEM_HEAP_GET_ADDR_FROM_OFFSET(next_offset))
                   \/ next_offset = EndOffset
    IN
    IF RegionFits(h.mem[current_p].size, required_size)
    THEN
      LET larger == h.mem[current_p].size > required_size
          wild == larger /\ current_p + required_size \notin AreaSlots
          m1 == IF wild THEN h.mem
                ELSE IF larger
                THEN CarveFront(h.mem, prev_p, current_p, required_size, next_offset)
                ELSE Unlink(h.mem, prev_p, next_offset)
      IN JMEM_HEAP_STAT_ALLOC_ITER(
           [h EXCEPT !.mem = m1,
                     !.allocated_size = (h.allocated_size + required_size) % SIZE_MOD,
                     !.list_skip_p = prev_p,
                     !.ptr = current_p,
                     !.bad = h.bad \/ wild \/ ~next_ok])
    ELSE SlowPath(JMEM_HEAP_STAT_ALLOC_ITER([h EXCEPT !.bad = h.bad \/ ~next_ok]),
                  current_p, JMEM_HEAP_GET_ADDR_FROM_OFFSET(next_offset),
                  required_size, fuel - 1)

jmem_heap_alloc_block_internal(h, size) ==
  LET required_size == AlignSize(size)
      h1 == IF required_size = JMEM_ALIGNMENT /\ h.mem[first_p].next_offset # EndOffset
            THEN FastPath([h EXCEPT !.ptr = NULL])
            ELSE SlowPath([h EXCEPT !.ptr = NULL], first_p,
                          JMEM_HEAP_GET_ADDR_FROM_OFFSET(h.mem[first_p].next_offset),
                          required_size, HeapUnits + 1)
      h2 == [h1 EXCEPT !.limit = GrowLimit(h1.allocated_size, h1.limit)]
  IN IF h2.ptr = NULL
     THEN h2
     ELSE JMEM_HEAP_STAT_ALLOC(
            [h2 EXCEPT
               !.mem = [s \in Slots |-> IF s \in BlockSlots(h2.ptr, required_size)
                                        THEN Junk ELSE h2.mem[s]],
               !.bad = h2.bad \/ h2.ptr % JMEM_ALIGNMENT # 0],
            size)

(***************************************************************************)
(* jmem_heap_free_block                                                    *)
(***************************************************************************)
\* mutant of WalkOrigin: the walk always starts at the skip hint
WalkOriginAlwaysSkip(block_p, skip_p) == skip_p

\* the walk starts at the hint when the block lies below it
WalkOriginFlipped(block_p, skip_p) ==
  IF block_p > skip_p THEN first_p ELSE skip_p

\* if (block_p > jmem_heap_list_skip_p) prev_p = skip_p; else prev_p = &first
WalkOrigin(block_p, skip_p) ==
  IF block_p > skip_p THEN skip_p ELSE first_p

\* while (prev_p->next_offset < block_offset) prev_p = next_p
RECURSIVE FreeWalk(_, _, _, _)
FreeWalk(m, prev_p, block_offset, fuel) ==
  IF prev_p \notin Slots \/ fuel = 0
  THEN BadPtr
  ELSE IF m[prev_p].next_offset < block_offset
  THEN FreeWalk(m, JMEM_HEAP_GET_ADDR_FROM_OFFSET(m[prev_p].next_offset),
                block_offset, fuel - 1)
  ELSE prev_p

\* the number of iterations of that walk
RECURSIVE FreeWalkSteps(_, _, _, _)
FreeWalkSteps(m, prev_p, block_offset, fuel) ==
  IF prev_p \notin Slots \/ fuel = 0
  THEN 0
  ELSE IF m[prev_p].next_offset < block_offset
  THEN 1 + FreeWalkSteps(m, JMEM_HEAP_GET_ADDR_FROM_OFFSET(m[prev_p].next_offset),
                         block_offset, fuel - 1)
  ELSE 0

\* the freed block is never joined to the region before it
MergesWithPrevNever(m, prev_p, block_p) == FALSE

\* Update prev: if (jmem_heap_get_region_end (prev_p) == block_p)
MergesWithPrev(m, prev_p, block_p) ==
  jmem_heap_get_region_end(m, prev_p) = block_p

\* mutant of MergesWithNext: the following region is never absorbed
MergesWithNextNever(m, block_p, next_p) == FALSE

\* Update next: if (jmem_heap_get_region_end (block_p) == next_p)
MergesWithNext(m, block_p, next_p) ==
  jmem_heap_get_region_end(m, block_p) = next_p

\* mutant of Realign: the size is used as passed
RealignNone(size) == size

\* Realign size (the rounding jmem_heap_free_block applies to its argument)
Realign(size) ==
  (((size + JMEM_ALIGNMENT - 1) % SIZE_MOD) \div JMEM_ALIGNMENT) * JMEM_ALIGNMENT

\* mutant of LinkNext: the successor of the inserted block is not written
LinkNextNot(m, block_p, next_p) == m

\* the else branch of "Update next": block_p->next_offset = offset (next_p)
LinkNext(m, block_p, next_p) ==
  [m EXCEPT ![block_p].next_offset = JMEM_HEAP_GET_OFFSET_FROM_ADDR(next_p)]

jmem_heap_free_block(h, ptr, size) ==
  LET entry_ok == /\ jmem_is_heap_pointer(ptr)
                  /\ size > 0
                  /\ h.limit >= h.allocated_size
      block_p == ptr
      block_offset == JMEM_HEAP_GET_OFFSET_FROM_ADDR(block_p)
      prev_p == FreeWalk(h.mem, WalkOrigin(block_p, h.list_skip_p),
                         block_offset, HeapUnits + 2)
  IN
  IF prev_p = BadPtr \/ block_p \notin AreaSlots
  THEN [h EXCEPT !.bad = TRUE]
  ELSE
    LET next_p == JMEM_HEAP_GET_ADDR_FROM_OFFSET(h.mem[prev_p].next_offset)
        aligned_size == Realign(size)
        with_prev == MergesWithPrev(h.mem, prev_p, block_p)
        m1 == IF with_prev
              THEN [h.mem EXCEPT ![prev_p].size = (@ + aligned_size) % UINT32_MOD]
              ELSE [h.mem EXCEPT ![block_p].size = aligned_size % UINT32_MOD,
                                 ![prev_p].next_offset = block_offset]
        block1_p == IF with_prev THEN prev_p ELSE block_p
        with_next == MergesWithNext(m1, block1_p, next_p)
        wild == with_next /\ next_p \notin Slots
        m2 == IF wild THEN m1
              ELSE IF with_next
              THEN [m1 EXCEPT ![block1_p].size = (@ + m1[next_p].size) % UINT32_MOD,
                              ![block1_p].next_offset = m1[next_p].next_offset]
              ELSE LinkNext(m1, block1_p, next_p)
        allocated == (h.allocated_size - aligned_size) % SIZE_MOD
        limit == ShrinkLimit(allocated, h.limit)
        freed ==
          [h EXCEPT !.mem = m2,
                 !.list_skip_p = prev_p,   \* line 576 overwrites the hint set at line 563
                 !.note = <<"free",
                            IF block_p > h.list_skip_p /\ h.list_skip_p # first_p
                            THEN "skip" ELSE "head",
                            IF with_prev THEN "prev" ELSE "noprev",
                            IF with_next THEN "next" ELSE "nonext">>,
                 !.allocated_size = allocated,
                 !.limit = limit,
                 !.bad = \/ h.bad \/ ~entry_ok \/ wild
                         \/ h.allocated_size = 0
                         \/ limit < allocated]
        \* the counters: one JMEM_HEAP_STAT_FREE_ITER at entry and one per
        \* iteration of the walk, SKIP or NONSKIP by the origin of the walk
        origin == IF block_p > h.list_skip_p
                  THEN JMEM_HEAP_STAT_SKIP(freed) ELSE JMEM_HEAP_STAT_NONSKIP(freed)
        walked == StatFreeIters(origin,
                    1 + FreeWalkSteps(h.mem, WalkOrigin(block_p, h.list_skip_p),
                                      block_offset, HeapUnits + 2))
    IN JMEM_HEAP_STAT_FREE(walked, size)

(***************************************************************************)
(* Compressed pointers                                                     *)
(***************************************************************************)
JMEM_CP_NULL == 0

\* the smallest width the static assertion of jmem_heap_init admits:
\* (1u << JMEM_HEAP_OFFSET_LOG) >= JMEM_HEAP_SIZE
JMEM_HEAP_OFFSET_LOG ==
  CHOOSE k \in 0 .. WordBits :
    /\ 2 ^ k >= JMEM_HEAP_SIZE
    /\ \A j \in 0 .. WordBits : 2 ^ j >= JMEM_HEAP_SIZE => k <= j

\* the assertions of jmem_heap_compress_pointer on its argument
CompressAcceptsPointer(pointer_p) ==
  /\ pointer_p # NULL
  /\ jmem_is_heap_pointer(pointer_p)
  /\ pointer_p % JMEM_ALIGNMENT = 0

\* the pointer is taken relative to the area, not to the heap structure
CompressFromArea(pointer_p) ==
  ((pointer_p - area) % SIZE_MOD) \div (2 ^ JMEM_ALIGNMENT_LOG)

\* the shift drops one bit more than the alignment has
CompressShiftTooFar(pointer_p) ==
  ((pointer_p - jmem_heap) % SIZE_MOD) \div (2 ^ (JMEM_ALIGNMENT_LOG + 1))

\* int_ptr -= heap_start; int_ptr >>= JMEM_ALIGNMENT_LOG (uintptr_t arithmetic)
jmem_heap_compress_pointer(pointer_p) ==
  ((pointer_p - jmem_heap) % SIZE_MOD) \div (2 ^ JMEM_ALIGNMENT_LOG)

\* the assertions of jmem_heap_compress_pointer on its result; the mask
\* ~((1u << JMEM_HEAP_OFFSET_LOG) - 1) is an unsigned int
CompressAcceptsCode(int_ptr) ==
  /\ (int_ptr % UINT32_MOD) \div (2 ^ JMEM_HEAP_OFFSET_LOG) = 0
  /\ int_ptr # JMEM_CP_NULL

\* the area is taken as the base
DecompressFromArea(compressed_pointer) ==
  (((compressed_pointer * 2 ^ JMEM_ALIGNMENT_LOG) % SIZE_MOD) + area) % SIZE_MOD

\* int_ptr <<= JMEM_ALIGNMENT_LOG; int_ptr += heap_start (uintptr_t arithmetic)
jmem_heap_decompress_pointer(compressed_pointer) ==
  (((compressed_pointer * 2 ^ JMEM_ALIGNMENT_LOG) % SIZE_MOD) + jmem_heap) % SIZE_MOD

\* the assertions of jmem_heap_decompress_pointer
DecompressAccepts(compressed_pointer) ==
  /\ compressed_pointer # JMEM_CP_NULL
  /\ jmem_is_heap_pointer(jmem_heap_decompress_pointer(compressed_pointer))

NoCp == [given |-> "none", input |-> 0, calls |-> 0,
         stage |-> "none", ptr |-> NULL, code |-> JMEM_CP_NULL]

\* pointers a caller may pass: aligned or not, below, inside and above the area
CpPointers == {4 * k : k \in 0 .. CpMaxPtrWords}

\* codes a caller may pass: small ones, and ones whose shift leaves the word
CpCodes ==
  (0 .. CpMaxCode) \cup
  {SIZE_MOD \div (2 ^ JMEM_ALIGNMENT_LOG) + k : k \in 0 .. CpMaxCode}

\* a call of jmem_heap_compress_pointer on the pointer at hand
CompressPointer ==
  /\ cp.stage \in {"pointer", "decompressed"}
  /\ cp.calls < 2
  /\ LET int_ptr == jmem_heap_compress_pointer(cp.ptr) IN
     cp' = [cp EXCEPT !.calls = cp.calls + 1,
                      !.code = int_ptr,
                      !.stage = IF /\ CompressAcceptsPointer(cp.ptr)
                                   /\ CompressAcceptsCode(int_ptr)
                                THEN "compressed" ELSE "compress_assert"]
  /\ UNCHANGED <<jmem_heap_stats, wide, mem, jmem_heap_allocated_size, jmem_heap_limit,
                 jmem_heap_list_skip_p, live, pc, req, ret, events, assert_failed>>

\* a call of jmem_heap_decompress_pointer on the code at hand
DecompressPointer ==
  /\ cp.stage \in {"code", "compressed"}
  /\ cp.calls < 2
  /\ LET int_ptr == jmem_heap_decompress_pointer(cp.code) IN
     cp' = [cp EXCEPT !.calls = cp.calls + 1,
                      !.ptr = int_ptr,
                      !.stage = IF DecompressAccepts(cp.code)
                                THEN "decompressed" ELSE "decompress_assert"]
  /\ UNCHANGED <<jmem_heap_stats, wide, mem, jmem_heap_allocated_size, jmem_heap_limit,
                 jmem_heap_list_skip_p, live, pc, req, ret, events, assert_failed>>

\* The build configuration: JMEM_HEAP_SIZE and JMEM_HEAP_OFFSET_LOG are
\* macros of the build, tied only by the static assertion of jmem_heap_init.
\* The operators below are the tests of jmem_heap_compress_pointer with the
\* two macros as parameters.
CfgMaxHeapUnits == 8
CfgMaxOffsetLog == 7

\* the configurations the static assertion admits:
\* (1u << JMEM_HEAP_OFFSET_LOG) >= JMEM_HEAP_SIZE
Configurations ==
  {c \in [heap_size : {u * JMEM_ALIGNMENT : u \in 2 .. CfgMaxHeapUnits},
          offset_log : JMEM_ALIGNMENT_LOG .. CfgMaxOffsetLog] :
     2 ^ c.offset_log >= c.heap_size}

\* jmem_is_heap_pointer with JMEM_HEAP_AREA_SIZE = heap_size - JMEM_ALIGNMENT
HeapPointerOfSize(heap_size, p) ==
  p >= area /\ p <= area + (heap_size - JMEM_ALIGNMENT)

\* the assertions of jmem_heap_compress_pointer on its argument
CompressAcceptsPointerOfSize(heap_size, pointer_p) ==
  /\ pointer_p # NULL
  /\ HeapPointerOfSize(heap_size, pointer_p)
  /\ pointer_p % JMEM_ALIGNMENT = 0

\* the assertions of jmem_heap_compress_pointer on its result
CompressAcceptsCodeOfLog(offset_log, int_ptr) ==
  /\ (int_ptr % UINT32_MOD) \div (2 ^ offset_log) = 0
  /\ int_ptr # JMEM_CP_NULL

\* a call of jmem_heap_compress_pointer in the build with the configuration
\* at hand
CompressPointerConfigured ==
  /\ cp.stage = "configured"
  /\ LET int_ptr == jmem_heap_compress_pointer(cp.ptr) IN
     cp' = [cp EXCEPT !.calls = cp.calls + 1,
                      !.code = int_ptr,
                      !.stage = IF /\ CompressAcceptsPointerOfSize(cp.heap_size, cp.ptr)
                                   /\ CompressAcceptsCodeOfLog(cp.offset_log, int_ptr)
                                THEN "compressed" ELSE "compress_assert"]
  /\ UNCHANGED <<jmem_heap_stats, wide, mem, jmem_heap_allocated_size, jmem_heap_limit,
                 jmem_heap_list_skip_p, live, pc, req, ret, events, assert_failed>>

(***************************************************************************)
(* The client, the allocation requests and the reclamation callbacks       *)
(***************************************************************************)
\* byte counts the client asks for: 0, and one size per number of units,
\* a multiple of the alignment for the even ones and 3 bytes short of it for the odd
ReqSizes ==
  {0} \cup {IF k % 2 = 0 THEN k * JMEM_ALIGNMENT ELSE k * JMEM_ALIGNMENT - 3 :
              k \in 1 .. MaxReqUnits}

NoReq == [kind |-> "none", size |-> 0, near_full |-> FALSE, limit_reached |-> FALSE]

\* the request in progress; near_full and limit_reached remember the state the
\* request started in: the heap within CONFIG_MEM_HEAP_DESIRED_LIMIT of full,
\* and jmem_heap_allocated_size + size at or above jmem_heap_limit
NewReq(kind, size) ==
  [kind |-> kind, size |-> size,
   near_full |-> JMEM_HEAP_AREA_SIZE - jmem_heap_allocated_size
                   <= CONFIG_MEM_HEAP_DESIRED_LIMIT,
   limit_reached |-> (jmem_heap_allocated_size + size) % SIZE_MOD >= jmem_heap_limit]

\* jerry_fatal for every variant
ExhaustedAlwaysFatal(kind) ==
  "fatal"

\* jerry_fatal (ERR_OUT_OF_MEMORY) for the fatal variants, NULL for the other
Exhausted(kind) ==
  IF kind = "null" THEN "idle" ELSE "fatal"

\* the request returns data_space_p (alloc_block_store_size: writes the
\* header and returns data_space_p + 1)
Complete(h, kind, size, ev) ==
  /\ SetHeap(IF kind = "store"
             THEN [h EXCEPT !.mem = [h.mem EXCEPT ![h.ptr].size = size % UINT32_MOD]]
             ELSE h)
  /\ ret' = IF kind = "store" THEN h.ptr + SizeofFree ELSE h.ptr
  /\ live' = live \cup {[ptr |-> IF kind = "store" THEN h.ptr + SizeofFree ELSE h.ptr,
                         size |-> size, stored |-> kind = "store"]}
  /\ pc' = "idle"
  /\ req' = NoReq
  /\ events' = Append(ev, "OK")

\* one call of jmem_heap_alloc_block_internal inside jmem_heap_gc_and_alloc_block;
\* on failure the next reclamation severity runs, or the pressure loop is exhausted
Attempt(kind, size, ev, next_pc) ==
  LET h == jmem_heap_alloc_block_internal(Heap, size) IN
  IF h.ptr # NULL
  THEN Complete(h, kind, size, ev)
  ELSE /\ SetHeap(h)
       /\ UNCHANGED live
       /\ IF next_pc = "done"
          THEN /\ pc' = Exhausted(kind)
               /\ ret' = NULL
               /\ req' = IF kind = "null" THEN NoReq ELSE req
               /\ events' = Append(ev, "FAIL")
          ELSE /\ pc' = next_pc
               /\ ret' = NULL
               /\ req' = IF pc = "idle" THEN NewReq(kind, size) ELSE req
               /\ events' = ev \o <<"FAIL", IF next_pc = "gc_low" THEN "LOW" ELSE "HIGH">>

\* the reclamation before the first attempt never runs
LimitReachedNever(allocated_size, size, limit) ==
  FALSE

\* the test that runs the reclamation of severity LOW before the first attempt
LimitReached(allocated_size, size, limit) ==
  (allocated_size + size) % SIZE_MOD >= limit

\* jmem_heap_gc_and_alloc_block up to the first point where external code runs
GcAndAlloc(kind, size) ==
  IF LimitReached(jmem_heap_allocated_size, size, jmem_heap_limit)
  THEN /\ pc' = "gc_pre"
       /\ req' = NewReq(kind, size)
       /\ events' = <<"LOW">>
       /\ ret' = NULL
       /\ UNCHANGED <<jmem_heap_stats, mem, jmem_heap_allocated_size, jmem_heap_limit,
                      jmem_heap_list_skip_p, assert_failed, live>>
  ELSE Attempt(kind, size, <<>>, "gc_low")

\* a request of size 0 goes through the pressure loop like any other
ZeroSizeAllocates ==
  GcAndAlloc("null", 0)

\* if (unlikely (size == 0)) return NULL;
ZeroSize ==
  /\ ret' = NULL
  /\ events' = <<>>
  /\ UNCHANGED <<jmem_heap_stats, mem, jmem_heap_allocated_size, jmem_heap_limit,
                 jmem_heap_list_skip_p, assert_failed, live, pc, req>>

\* jmem_heap_alloc_block
AllocBlock(size) ==
  /\ pc = "idle"
  /\ UNCHANGED <<wide, cp>>
  /\ IF size = 0 THEN ZeroSize ELSE GcAndAlloc("fatal", size)

\* jmem_heap_alloc_block_null_on_error
AllocBlockNullOnError(size) ==
  /\ pc = "idle"
  /\ UNCHANGED <<wide, cp>>
  /\ IF size = 0 THEN ZeroSize ELSE GcAndAlloc("null", size)

\* jmem_heap_alloc_block_store_size
AllocBlockStoreSize(size) ==
  /\ pc = "idle"
  /\ UNCHANGED <<wide, cp>>
  /\ IF size = 0 THEN ZeroSize
     ELSE GcAndAlloc("store", (size + SizeofFree) % SIZE_MOD)

\* the length the caller asked for is taken for the length of the block
StoredSizeWithoutHeader(m, ptr) == (m[ptr - SizeofFree].size - SizeofFree) % UINT32_MOD

\* jmem_heap_free_block_size_stored: the size is read from the header
StoredSize(m, ptr) == m[ptr - SizeofFree].size

Release(b) ==
  IF b.stored
  THEN jmem_heap_free_block(Heap, b.ptr - SizeofFree, StoredSize(mem, b.ptr))
  ELSE jmem_heap_free_block(Heap, b.ptr, b.size)

\* the client calls jmem_heap_free_block on a block it holds, with its size
FreeBlock(b) ==
  /\ pc = "idle"
  /\ ~b.stored
  /\ SetHeap(Release(b))
  /\ live' = live \ {b}
  /\ ret' = NULL
  /\ events' = Release(b).note
  /\ UNCHANGED <<wide, cp, pc, req>>

\* the client calls jmem_heap_free_block_size_stored
FreeBlockSizeStored(b) ==
  /\ pc = "idle"
  /\ b.stored
  /\ SetHeap(Release(b))
  /\ live' = live \ {b}
  /\ ret' = NULL
  /\ events' = <<"free_stored">> \o Tail(Release(b).note)
  /\ UNCHANGED <<wide, cp, pc, req>>

\* a reclamation callback, running inside jmem_run_free_unused_memory_callbacks,
\* frees one of the live blocks; "cb" records that this run of the callbacks
\* freed something
CallbackFree(b) ==
  /\ pc \in {"gc_pre", "gc_low", "gc_high"}
  /\ SetHeap(Release(b))
  /\ live' = live \ {b}
  /\ events' = IF events[Len(events)] = "cb" THEN events ELSE Append(events, "cb")
  /\ UNCHANGED <<wide, cp, pc, req, ret>>

\* the loop goes from the first failed attempt to severity HIGH at once
NextSeveritySkipLow(at) ==
  CASE at = "gc_pre" -> "gc_high"
    [] at = "gc_low" -> "gc_high"
    [] at = "gc_high" -> "done"

\* what follows a failed attempt: the loop over the severities LOW and HIGH,
\* and the end of the loop
NextSeverity(at) ==
  CASE at = "gc_pre" -> "gc_low"
    [] at = "gc_low" -> "gc_high"
    [] at = "gc_high" -> "done"

\* jmem_run_free_unused_memory_callbacks returns: the next attempt runs
CallbackReturn ==
  /\ pc \in {"gc_pre", "gc_low", "gc_high"}
  /\ UNCHANGED <<wide, cp>>
  /\ Attempt(req.kind, req.size, events, NextSeverity(pc))

\* jmem_heap_finalize, called by a client that holds no block
Finalize ==
  /\ pc = "idle"
  /\ live = {}
  /\ assert_failed' = (assert_failed \/ jmem_heap_allocated_size # 0)
  /\ events' = <<"finalize">>
  /\ ret' = NULL
  /\ UNCHANGED <<jmem_heap_stats, wide, cp, mem, jmem_heap_allocated_size, jmem_heap_limit,
                 jmem_heap_list_skip_p, live, pc, req>>

Init ==
  /\ wide \in BOOLEAN
  /\ mem = InitMem
  /\ jmem_heap_allocated_size = 0
  /\ jmem_heap_limit = CONFIG_MEM_HEAP_DESIRED_LIMIT
  /\ jmem_heap_list_skip_p = first_p
  /\ live = {}
  /\ pc = "idle"
  /\ req = NoReq
  /\ ret = NULL
  /\ events = <<>>
  /\ assert_failed = FALSE
  /\ jmem_heap_stats = NoStats
  /\ cp = NoCp

Next ==
  \/ \E size \in ReqSizes : AllocBlock(size)
  \/ \E size \in ReqSizes : AllocBlockNullOnError(size)
  \/ \E size \in ReqSizes : AllocBlockStoreSize(size)
  \/ \E b \in live : FreeBlock(b)
  \/ \E b \in live : FreeBlockSizeStored(b)
  \/ \E b \in live : CallbackFree(b)
  \/ CallbackReturn
  \/ Finalize

Spec == Init /\ [][Next]_vars

\* the heap after jmem_heap_init, and a caller holding a pointer or a code
InitCp ==
  /\ wide \in BOOLEAN
  /\ mem = InitMem
  /\ jmem_heap_allocated_size = 0
  /\ jmem_heap_limit = CONFIG_MEM_HEAP_DESIRED_LIMIT
  /\ jmem_heap_list_skip_p = first_p
  /\ live = {}
  /\ pc = "idle"
  /\ req = NoReq
  /\ ret = NULL
  /\ events = <<>>
  /\ assert_failed = FALSE
  /\ jmem_heap_stats = NoStats
  /\ cp \in {[given |-> "pointer", input |-> p, calls |-> 0,
               stage |-> "pointer", ptr |-> p, code |-> JMEM_CP_NULL] : p \in CpPointers}
            \cup {[given |-> "code", input |-> u, calls |-> 0,
                    stage |-> "code", ptr |-> NULL, code |-> u] : u \in CpCodes}

NextCp ==
  \/ CompressPointer
  \/ DecompressPointer

SpecCp == InitCp /\ [][NextCp]_vars

\* a build with one of the admitted configurations, and a pointer to compress
InitCfg ==
  /\ wide \in BOOLEAN
  /\ mem = InitMem
  /\ jmem_heap_allocated_size = 0
  /\ jmem_heap_limit = CONFIG_MEM_HEAP_DESIRED_LIMIT
  /\ jmem_heap_list_skip_p = first_p
  /\ live = {}
  /\ pc = "idle"
  /\ req = NoReq
  /\ ret = NULL
  /\ events = <<>>
  /\ assert_failed = FALSE
  /\ jmem_heap_stats = NoStats
  /\ cp \in {[given |-> "pointer", input |-> p, calls |-> 0, stage |-> "configured",
              ptr |-> p, code |-> JMEM_CP_NULL,
              heap_size |-> c.heap_size, offset_log |-> c.offset_log] :
               p \in CpPointers, c \in Configurations}

NextCfg ==
  CompressPointerConfigured

SpecCfg == InitCfg /\ [][NextCfg]_vars

\* jmem_heap_stats_print divides by three of the counters; a division by
\* zero is undefined: the process is stopped by the trap of the division
\* or goes on with some quotient
PrintDivisors ==
  {jmem_heap_stats.nonskip_count, jmem_heap_stats.alloc_count,
   jmem_heap_stats.free_count}

\* jmem_heap_stats_print: it writes to the output only
StatsPrint ==
  /\ pc = "idle"
  /\ jmem_heap_stats.enabled
  /\ IF 0 \in PrintDivisors
     THEN pc' \in {"trap", pc}
     ELSE pc' = pc
  /\ UNCHANGED <<jmem_heap_stats, wide, cp, mem, jmem_heap_allocated_size,
                 jmem_heap_limit, jmem_heap_list_skip_p, live, req, ret, events,
                 assert_failed>>

\* jmem_heap_stats_reset_peak
StatsResetPeak ==
  /\ pc = "idle"
  /\ jmem_heap_stats.enabled
  /\ jmem_heap_stats' =
       [jmem_heap_stats EXCEPT
          !.peak_allocated_bytes = jmem_heap_stats.allocated_bytes,
          !.peak_waste_bytes = jmem_heap_stats.waste_bytes]
  /\ UNCHANGED <<wide, cp, mem, jmem_heap_allocated_size, jmem_heap_limit,
                 jmem_heap_list_skip_p, live, pc, req, ret, events, assert_failed>>

\* the build with JMEM_STATS: jmem_heap_init ends with JMEM_HEAP_STAT_INIT ()
InitStats ==
  /\ wide \in BOOLEAN
  /\ mem = InitMem
  /\ jmem_heap_allocated_size = 0
  /\ jmem_heap_limit = CONFIG_MEM_HEAP_DESIRED_LIMIT
  /\ jmem_heap_list_skip_p = first_p
  /\ live = {}
  /\ pc = "idle"
  /\ req = NoReq
  /\ ret = NULL
  /\ events = <<>>
  /\ assert_failed = FALSE
  /\ jmem_heap_stats = jmem_heap_stat_init
  /\ cp = NoCp

\* the runs are cut where the counters reach the bounds
StatsRoom ==
  /\ jmem_heap_stats.alloc_count + jmem_heap_stats.free_count < MaxStatOps
  /\ jmem_heap_stats.alloc_iter_count < MaxStatIters

NextStats ==
  \/ StatsRoom /\ \E size \in ReqSizes : AllocBlock(size)
  \/ StatsRoom /\ \E size \in ReqSizes : AllocBlockNullOnError(size)
  \/ StatsRoom /\ \E size \in ReqSizes : AllocBlockStoreSize(size)
  \/ StatsRoom /\ \E b \in live : FreeBlock(b)
  \/ StatsRoom /\ \E b \in live : FreeBlockSizeStored(b)
  \/ StatsRoom /\ \E b \in live : CallbackFree(b)
  \/ StatsRoom /\ CallbackReturn
  \/ StatsRoom /\ Finalize
  \/ StatsPrint
  \/ StatsResetPeak

SpecStats == InitStats /\ [][NextStats]_vars

(***************************************************************************)
(* Views of the state used by the properties                               *)
(***************************************************************************)
\* the addresses of the nodes met walking the list from p, at most fuel of them
RECURSIVE ListFrom(_, _, _)
ListFrom(m, p, fuel) ==
  IF p \notin AreaSlots \/ fuel = 0
  THEN <<>>
  ELSE <<p>> \o ListFrom(m, JMEM_HEAP_GET_ADDR_FROM_OFFSET(m[p].next_offset), fuel - 1)

\* the pointer at which that walk stops
RECURSIVE ListStop(_, _, _)
ListStop(m, p, fuel) ==
  IF p \notin AreaSlots \/ fuel = 0
  THEN p
  ELSE ListStop(m, JMEM_HEAP_GET_ADDR_FROM_OFFSET(m[p].next_offset), fuel - 1)

FirstNode == JMEM_HEAP_GET_ADDR_FROM_OFFSET(mem[first_p].next_offset)
FreeNodes == ListFrom(mem, FirstNode, HeapUnits + 1)
FreeSet == {FreeNodes[i] : i \in 1 .. Len(FreeNodes)}

RECURSIVE SumSizes(_, _)
SumSizes(m, nodes) ==
  IF nodes = <<>> THEN 0 ELSE m[Head(nodes)].size + SumSizes(m, Tail(nodes))

\* size rounded up to a multiple of the alignment, in unbounded arithmetic
RoundUp(size) == ((size + JMEM_ALIGNMENT - 1) \div JMEM_ALIGNMENT) * JMEM_ALIGNMENT

\* the heap block behind a block the client holds
BlockStart(b) == IF b.stored THEN b.ptr - SizeofFree ELSE b.ptr

RECURSIVE SumLive(_)
SumLive(blocks) ==
  IF blocks = {} THEN 0
  ELSE LET b == CHOOSE x \in blocks : TRUE
       IN RoundUp(b.size) + SumLive(blocks \ {b})

(***************************************************************************)
(* C1  Conservation: in every state reached by init and the public         *)
(* operations, allocated_size plus the sizes of all nodes on the free list *)
(* equals JMEM_HEAP_AREA_SIZE.                                             *)
(***************************************************************************)
C1_Conservation ==
  jmem_heap_allocated_size + SumSizes(mem, FreeNodes) = JMEM_HEAP_AREA_SIZE

\* blocks are live and the free list is fragmented into several nodes
C1_Witness ==
  /\ Cardinality(live) >= 2
  /\ Len(FreeNodes) >= 2
  /\ \E b \in live : b.stored

(***************************************************************************)
(* C2  Free-list sortedness: adjacent free nodes a, b in list order have   *)
(* address(a) < address(b) and address(a) + a.size <= address(b).          *)
(***************************************************************************)
C2_Sorted ==
  \A i \in 1 .. (Len(FreeNodes) - 1) :
    /\ FreeNodes[i] < FreeNodes[i + 1]
    /\ FreeNodes[i] + mem[FreeNodes[i]].size <= FreeNodes[i + 1]

\* a free that walked from the skip hint inserted a node between two others
C2_Witness ==
  /\ Len(FreeNodes) >= 3
  /\ events = <<"free", "skip", "noprev", "nonext">>
  /\ jmem_heap_list_skip_p = FreeNodes[1]

(***************************************************************************)
(* C3  No touching frees: adjacent free nodes a, b in list order have      *)
(* address(a) + a.size < address(b): free always coalesces the block with  *)
(* a byte-adjacent free region before and after it, from either origin.    *)
(***************************************************************************)
C3_NoTouching ==
  \A i \in 1 .. (Len(FreeNodes) - 1) :
    FreeNodes[i] + mem[FreeNodes[i]].size < FreeNodes[i + 1]

\* a free that walked from the skip hint merged with both neighbours
C3_Witness ==
  /\ events = <<"free", "skip", "prev", "next">>
  /\ live # {}

(***************************************************************************)
(* C4  Every free node has a size that is a positive multiple of           *)
(* JMEM_ALIGNMENT, starts at an aligned address and lies inside the area.  *)
(***************************************************************************)
C4_NodeShape ==
  \A i \in 1 .. Len(FreeNodes) :
    LET p == FreeNodes[i] IN
    /\ mem[p].size > 0
    /\ mem[p].size % JMEM_ALIGNMENT = 0
    /\ p % JMEM_ALIGNMENT = 0
    /\ p >= area
    /\ p + mem[p].size <= area + JMEM_HEAP_AREA_SIZE

\* a carved remainder ends the area and a freed unaligned request is on the list
C4_Witness ==
  /\ Len(FreeNodes) >= 2
  /\ events = <<"free", "head", "noprev", "nonext">>
  /\ LET p == FreeNodes[Len(FreeNodes)] IN p + mem[p].size = area + JMEM_HEAP_AREA_SIZE

(***************************************************************************)
(* C5  Skip-hint validity: jmem_heap_list_skip_p is the sentinel or a node *)
(* currently on the free list.                                             *)
(***************************************************************************)
C5_SkipValid ==
  jmem_heap_list_skip_p = first_p \/ jmem_heap_list_skip_p \in FreeSet

(***************************************************************************)
(* C6  Limit envelope: allocated_size <= limit in every state reached by   *)
(* init, allocations, frees and reclamation callbacks.                     *)
(***************************************************************************)
C6_LimitEnvelope ==
  jmem_heap_allocated_size <= jmem_heap_limit

\* a free has shrunk the limit down onto allocated_size
C6_Witness ==
  /\ jmem_heap_allocated_size = jmem_heap_limit
  /\ Len(events) = 4
  /\ events[1] = "free"

C8_AllocatedIsLiveSum ==
  jmem_heap_allocated_size = SumLive(live)

\* after a free, a stored-size block and an unaligned block are still live
C8_Witness ==
  /\ Len(events) = 4
  /\ events[1] = "free"
  /\ \E b \in live : b.stored
  /\ \E b \in live : ~b.stored /\ b.size % JMEM_ALIGNMENT # 0

(***************************************************************************)
(* C9  The free list reachable from the sentinel, and from the skip hint,  *)
(* is finite, acyclic and ends at JMEM_HEAP_END_OF_LIST.                   *)
(***************************************************************************)
C9_ListTerminates ==
  /\ ListStop(mem, FirstNode, HeapUnits + 1) = JMEM_HEAP_END_OF_LIST
  /\ Cardinality(FreeSet) = Len(FreeNodes)
  /\ Len(FreeNodes) <= HeapUnits
  /\ jmem_heap_list_skip_p \in AreaSlots =>
       ListStop(mem, jmem_heap_list_skip_p, HeapUnits + 1) = JMEM_HEAP_END_OF_LIST

\* the list has three nodes and the skip hint is the middle one
C9_Witness ==
  /\ Len(FreeNodes) >= 3
  /\ jmem_heap_list_skip_p = FreeNodes[2]

(***************************************************************************)
(* C10  Reclamation monotonicity: a request of the fatal variant ends in   *)
(* jerry_fatal (ERR_OUT_OF_MEMORY) exactly when, after the reclamation of  *)
(* severity HIGH has run, no free region has size >= the rounded request;  *)
(* otherwise it returns a non-null block.                                  *)
(***************************************************************************)
FitExists(m, nodes, size) ==
  \E i \in 1 .. Len(nodes) : m[nodes[i]].size >= RoundUp(size)

C11_NullOnError ==
  [][ /\ (pc' = "fatal") => (req'.kind # "null")
      /\ (req.kind = "null" /\ pc' = "idle") =>
           /\ (ret' = NULL) <=>
                (pc = "gc_high" /\ ~FitExists(mem, FreeNodes, req.size))
           /\ (ret' = NULL) =>
                /\ mem' = mem
                /\ jmem_heap_allocated_size' = jmem_heap_allocated_size
                /\ live' = live
      /\ (req.kind = "null" /\ pc = "gc_high" /\ pc' # "gc_high") => pc' = "idle"
      /\ (pc = "idle" /\ pc' = "idle" /\ live' # live /\ live \subseteq live') =>
           ret' # NULL
    ]_vars

\* a null-on-error request came back with NULL after both severities ran, the
\* callbacks having freed a block that was too small to help
C11_Witness ==
  /\ pc = "idle"
  /\ ret = NULL
  /\ Len(events) >= 6
  /\ events[Len(events)] = "FAIL"
  /\ events[Len(events) - 1] = "cb"
  /\ live # {}

(***************************************************************************)
(* C12  Order of the pressure loop (JMEM_GC_BEFORE_EACH_ALLOC off): the    *)
(* reclamation of severity LOW runs before the first attempt exactly when  *)
(* jmem_heap_allocated_size + size >= jmem_heap_limit at entry; then one   *)
(* attempt; then, only while attempts fail: LOW, attempt, HIGH, attempt.   *)
(* The request returns at the first successful attempt, nothing runs after *)
(* a success, and HIGH never runs before a LOW and a failed attempt of the *)
(* same request.                                                           *)
(***************************************************************************)
NotCb(e) == e # "cb"

\* the reclamation calls and attempts of the request, without the marks of
\* what the callbacks freed
ReqTrace == SelectSeq(events, NotCb)

IsReqTrace == events # <<>> /\ events[1] \in {"LOW", "FAIL", "OK"}

LoopTraces(at) ==
  CASE at = "gc_pre" -> {}
    [] at = "gc_low" -> {<<"FAIL", "LOW">>}
    [] at = "gc_high" -> {<<"FAIL", "LOW", "FAIL", "HIGH">>}
    [] at = "fatal" -> {<<"FAIL", "LOW", "FAIL", "HIGH", "FAIL">>}
    [] at = "idle" -> {<<"OK">>,
                       <<"FAIL", "LOW", "OK">>,
                       <<"FAIL", "LOW", "FAIL", "HIGH", "OK">>,
                       <<"FAIL", "LOW", "FAIL", "HIGH", "FAIL">>}

TraceInOrder ==
  IsReqTrace =>
    \/ pc = "gc_pre" /\ ReqTrace = <<"LOW">>
    \/ ReqTrace \in LoopTraces(pc)
    \/ /\ ReqTrace[1] = "LOW"
       /\ Tail(ReqTrace) \in LoopTraces(pc)

C12_PressureLoopOrder ==
  [][ /\ TraceInOrder'
      /\ (pc # "idle") => IsReqTrace
      /\ (pc = "idle" /\ pc' # "idle") =>
           /\ pc' \in {"gc_pre", "gc_low"}
           /\ (pc' = "gc_pre") <=>
                ((jmem_heap_allocated_size + req'.size) % SIZE_MOD >= jmem_heap_limit)
           /\ events' = IF pc' = "gc_pre" THEN <<"LOW">> ELSE <<"FAIL", "LOW">>
      /\ (pc = "idle" /\ pc' = "idle" /\ live' # live /\ live \subseteq live') =>
           /\ events' = <<"OK">>
           /\ \A b \in live' \ live :
                (jmem_heap_allocated_size + b.size) % SIZE_MOD < jmem_heap_limit
    ]_vars

\* a request ran the reclamation before its first attempt, failed twice and
\* succeeded after severity HIGH had freed something
C12_Witness ==
  /\ pc = "idle"
  /\ ReqTrace = <<"LOW", "FAIL", "LOW", "FAIL", "HIGH", "OK">>
  /\ events[Len(events) - 1] = "cb"
  /\ ret # NULL

(***************************************************************************)
(* C13  Reclamation ladder: the heap is within                             *)
(* CONFIG_MEM_HEAP_DESIRED_LIMIT of full, no free region fits the request, *)
(* the callbacks of severity LOW free nothing and the callbacks of         *)
(* severity HIGH free a block that is large enough.  Then the request      *)
(* succeeds, and exactly one call of severity LOW followed by exactly one  *)
(* call of severity HIGH ran during it.                                    *)
(***************************************************************************)
Count(seq, x) == Cardinality({i \in DOMAIN seq : seq[i] = x})

\* the last attempt of a request that started with the heap nearly full, whose
\* LOW callbacks freed nothing and whose HIGH callbacks made room
LadderCase ==
  /\ pc = "gc_high"
  /\ pc' # "gc_high"
  /\ req.near_full
  /\ events = Append(ReqTrace, "cb")
  /\ FitExists(mem, FreeNodes, req.size)

C13_OneLowOneHigh ==
  [][ LadderCase =>
        /\ pc' = "idle"
        /\ ret' # NULL
        /\ Count(events', "LOW") = 1
        /\ Count(events', "HIGH") = 1
    ]_vars

\* C13 as the code has it: the call of severity LOW made before the first
\* attempt, when jmem_heap_allocated_size + size >= jmem_heap_limit at entry,
\* comes on top of the one the loop makes
C13_LadderWithPreemptiveLow ==
  [][ LadderCase =>
        /\ pc' = "idle"
        /\ ret' # NULL
        /\ Count(events', "HIGH") = 1
        /\ Count(events', "LOW") = IF req.limit_reached THEN 2 ELSE 1
        /\ ReqTrace' = (IF req.limit_reached THEN <<"LOW">> ELSE <<>>)
                         \o <<"FAIL", "LOW", "FAIL", "HIGH", "OK">>
    ]_vars

\* severity HIGH has just made room for a request that started with the heap
\* nearly full and at the limit: two calls of severity LOW ran before it
C13_Witness ==
  /\ pc = "gc_high"
  /\ req.near_full
  /\ req.limit_reached
  /\ events = <<"LOW", "FAIL", "LOW", "FAIL", "HIGH", "cb">>
  /\ FitExists(mem, FreeNodes, req.size)
  /\ Len(FreeNodes) >= 1

(***************************************************************************)
(* C14  First fit, carved from the front: a successful allocation of       *)
(* rounded size required returns the start of the lowest-address free      *)
(* region of size >= required; a larger region leaves its remainder on the *)
(* list as one node at the returned address + required, with the size      *)
(* reduced by required and the same successor; an exact fit is unlinked;   *)
(* no other free node changes.                                             *)
(***************************************************************************)
\* nodes without its i-th element
RemoveAt(nodes, i) ==
  [j \in 1 .. Len(nodes) - 1 |-> IF j < i THEN nodes[j] ELSE nodes[j + 1]]

FirstFitStep(b) ==
  LET nodes == FreeNodes
      required == RoundUp(b.size)
      fits == {j \in 1 .. Len(nodes) : mem[nodes[j]].size >= required}
  IN /\ fits # {}
     /\ LET i == CHOOSE j \in fits : \A k \in fits : nodes[j] <= nodes[k]
            n == nodes[i]
        IN /\ BlockStart(b) = n
           /\ IF mem[n].size > required
              THEN /\ FreeNodes' = [nodes EXCEPT ![i] = n + required]
                   /\ mem'[n + required].size = mem[n].size - required
                   /\ mem'[n + required].next_offset = mem[n].next_offset
              ELSE FreeNodes' = RemoveAt(nodes, i)
           /\ \A j \in 1 .. Len(nodes) :
                j # i =>
                  /\ mem'[nodes[j]].size = mem[nodes[j]].size
                  /\ (j # i - 1) =>
                       mem'[nodes[j]].next_offset = mem[nodes[j]].next_offset

C14_FirstFitFront ==
  [][ \A b \in live' \ live : FirstFitStep(b) ]_vars

\* the block just returned was carved from the front of a region that was not
\* the first of the list: a smaller free node lies below it, and its remainder
\* starts where it ends
C14_Witness ==
  /\ pc = "idle"
  /\ ret # NULL
  /\ IsReqTrace
  /\ events[Len(events)] = "OK"
  /\ \E b \in live :
       /\ b.ptr = ret
       /\ BlockStart(b) + RoundUp(b.size) \in FreeSet
       /\ \E n \in FreeSet : n < BlockStart(b) /\ mem[n].size < RoundUp(b.size)

(***************************************************************************)
(* C15  Full release restores the initial heap: whenever every block that  *)
(* was allocated has been freed, in whatever order, the free list has      *)
(* exactly one node, at the base of the area and of size                   *)
(* JMEM_HEAP_AREA_SIZE, and jmem_heap_allocated_size is 0, so the          *)
(* assertion of jmem_heap_finalize holds.                                  *)
(***************************************************************************)
C15_FullRelease ==
  (pc = "idle" /\ live = {}) =>
    /\ FreeNodes = <<area>>
    /\ mem[area].size = JMEM_HEAP_AREA_SIZE
    /\ mem[area].next_offset = EndOffset
    /\ jmem_heap_allocated_size = 0
    /\ ~assert_failed

\* jmem_heap_finalize ran after blocks had been allocated and all released: the
\* limit has left its initial value
C15_Witness ==
  /\ pc = "idle"
  /\ live = {}
  /\ events = <<"finalize">>
  /\ jmem_heap_limit # CONFIG_MEM_HEAP_DESIRED_LIMIT

(***************************************************************************)
(* C16  Compression round trip: for every aligned pointer p that           *)
(* jmem_heap_compress_pointer accepts, decompressing the code gives p      *)
(* back; for every code u that jmem_heap_decompress_pointer accepts,       *)
(* compressing the pointer gives u back.                                   *)
(***************************************************************************)
PointerRoundTrip ==
  (cp.given = "pointer" /\ cp.stage \notin {"pointer", "compress_assert"}) =>
    /\ cp.calls = 2 => (cp.stage = "decompressed" /\ cp.ptr = cp.input)
    /\ DecompressAccepts(cp.code)

CodeRoundTrip ==
  (cp.given = "code" /\ cp.stage \notin {"code", "decompress_assert"}) =>
    /\ cp.calls = 2 => (cp.stage = "compressed" /\ cp.code = cp.input)
    /\ CompressAcceptsPointer(cp.ptr)

C16_RoundTrip ==
  PointerRoundTrip /\ CodeRoundTrip

\* C16 as the code has it: the code u is one whose shift by
\* JMEM_ALIGNMENT_LOG stays inside the pointer width
C16_RoundTripOfCodesInRange ==
  /\ PointerRoundTrip
  /\ (cp.input * 2 ^ JMEM_ALIGNMENT_LOG < SIZE_MOD) => CodeRoundTrip

\* the code of the last unit of the area went through decompress and compress
C16_Witness ==
  /\ cp.given = "code"
  /\ cp.calls = 2
  /\ cp.stage = "compressed"
  /\ cp.input = jmem_heap_compress_pointer(area + JMEM_HEAP_AREA_SIZE - JMEM_ALIGNMENT)
  /\ cp.ptr = area + JMEM_HEAP_AREA_SIZE - JMEM_ALIGNMENT

(***************************************************************************)
(* C17  Null encoding: for every aligned pointer p inside the heap,        *)
(* jmem_heap_compress_pointer (p) is not JMEM_CP_NULL, the first byte of   *)
(* the area included.                                                      *)
(***************************************************************************)
C17_NeverCpNull ==
  (cp.given = "pointer" /\ cp.calls >= 1 /\ CompressAcceptsPointer(cp.input)) =>
    /\ cp.stage # "compress_assert"
    /\ jmem_heap_compress_pointer(cp.input) # JMEM_CP_NULL
    /\ cp.calls = 1 => cp.code # JMEM_CP_NULL

\* the first byte of the area was compressed
C17_Witness ==
  /\ cp.given = "pointer"
  /\ cp.input = area
  /\ cp.calls = 1
  /\ cp.stage = "compressed"
  /\ cp.code # JMEM_CP_NULL

(***************************************************************************)
(* C18  Whatever allocations and frees have been made, no two distinct     *)
(* pointers to live blocks have the same compressed code:                  *)
(* jmem_heap_compress_pointer is injective on the live pointers, and       *)
(* accepts each of them.                                                   *)
(***************************************************************************)
C18_InjectiveOnLive ==
  /\ \A b \in live :
       /\ CompressAcceptsPointer(b.ptr)
       /\ CompressAcceptsCode(jmem_heap_compress_pointer(b.ptr))
  /\ \A b1, b2 \in live :
       b1.ptr # b2.ptr =>
         jmem_heap_compress_pointer(b1.ptr) # jmem_heap_compress_pointer(b2.ptr)

\* three blocks are live, one of them with a stored size and two of them
\* neighbours, and a free region is left
C18_Witness ==
  /\ pc = "idle"
  /\ Cardinality(live) >= 3
  /\ \E b \in live : b.stored
  /\ \E b1, b2 \in live : b2.ptr = b1.ptr + JMEM_ALIGNMENT
  /\ mem[first_p].next_offset # EndOffset

(***************************************************************************)
(* C19  A request of size 0 to jmem_heap_alloc_block,                      *)
(* jmem_heap_alloc_block_null_on_error or jmem_heap_alloc_block_store_size *)
(* returns NULL, runs no reclamation callback and leaves the free list,    *)
(* jmem_heap_allocated_size, jmem_heap_limit and jmem_heap_list_skip_p     *)
(* unchanged: only requests of a size above 0 reach the pressure loop.     *)
(***************************************************************************)
C19_ZeroSizeRequest ==
  [][ /\ (pc = "idle" /\ events' = <<>>) =>
           /\ ret' = NULL
           /\ pc' = "idle"
           /\ mem' = mem
           /\ FreeNodes' = FreeNodes
           /\ jmem_heap_allocated_size' = jmem_heap_allocated_size
           /\ jmem_heap_limit' = jmem_heap_limit
           /\ jmem_heap_list_skip_p' = jmem_heap_list_skip_p
           /\ live' = live
      /\ \A b \in live' \ live :
           b.size > (IF b.stored THEN SizeofFree ELSE 0)
      /\ (pc = "idle" /\ pc' # "idle") =>
           req'.size > (IF req'.kind = "store" THEN SizeofFree ELSE 0)
    ]_vars

\* a request of size 0 has just returned while a block was live, the limit had
\* grown and the skip hint was not the sentinel
C19_Witness ==
  /\ pc = "idle"
  /\ events = <<>>
  /\ ret = NULL
  /\ live # {}
  /\ jmem_heap_limit > CONFIG_MEM_HEAP_DESIRED_LIMIT
  /\ jmem_heap_list_skip_p # first_p
  /\ Len(FreeNodes) >= 1

(***************************************************************************)
(* C20  Stored-size round trip: the block that                             *)
(* jmem_heap_alloc_block_store_size (size) took, for size > 0, is the one  *)
(* jmem_heap_free_block_size_stored releases, whatever was done in         *)
(* between: the header still holds the length that was allocated (size     *)
(* plus the size of the header), so jmem_heap_allocated_size drops by the  *)
(* rounded amount it rose by, and the allocated and the free bytes still   *)
(* add up to the area.                                                     *)
(***************************************************************************)
C20_StoredSizeRoundTrip ==
  [][ /\ \A b \in live' :
           b.stored => mem'[b.ptr - SizeofFree].size = b.size
      /\ \A b \in live' \ live :
           b.stored =>
             /\ ret' = b.ptr
             /\ b.ptr - SizeofFree \in AreaSlots
             /\ jmem_heap_allocated_size' = jmem_heap_allocated_size + RoundUp(b.size)
      /\ \A b \in live \ live' :
           b.stored =>
             /\ mem[b.ptr - SizeofFree].size = b.size
             /\ jmem_heap_allocated_size' = jmem_heap_allocated_size - RoundUp(b.size)
             /\ b.ptr - SizeofFree \in FreeSet' \/
                  \E n \in FreeSet' :
                    n < b.ptr - SizeofFree /\ n + mem'[n].size >= b.ptr - SizeofFree + RoundUp(b.size)
             /\ jmem_heap_allocated_size' + SumSizes(mem', FreeNodes') = JMEM_HEAP_AREA_SIZE
    ]_vars

\* jmem_heap_free_block_size_stored has just released a block, which joined
\* the free region before it, while another block is live and another free
\* region exists
C20_Witness ==
  /\ pc = "idle"
  /\ events # <<>>
  /\ events[1] = "free_stored"
  /\ events[3] = "prev"
  /\ live # {}
  /\ Len(FreeNodes) >= 2

(***************************************************************************)
(* C22  After every successful allocation, by the fast path or the slow    *)
(* path, and after every free, jmem_heap_list_skip_p is the last prev node *)
(* of that operation's walk: the predecessor of the consumed region for an *)
(* allocation, the node before (or merged with) the freed block for a free.*)
(***************************************************************************)
\* the node of the list, or the sentinel, that lies closest below address p
PrevOf(nodes, p) ==
  LET below == {n \in nodes : n < p} IN
  IF below = {} THEN first_p
  ELSE CHOOSE n \in below : \A k \in below : k <= n

SkipAfterFree ==
  \A b \in live \ live' :
    jmem_heap_list_skip_p' = PrevOf(FreeSet', BlockStart(b))

C22_SkipIsLastPrev ==
  [][ /\ \A b \in live' \ live :
           jmem_heap_list_skip_p' = PrevOf(FreeSet, BlockStart(b))
      /\ SkipAfterFree
    ]_vars

\* C22 as the code has it: the fast path (a rounded request of JMEM_ALIGNMENT
\* bytes on a list that is not empty) leaves the hint alone, unless the hint
\* was the region it consumed: then the hint becomes the address decoded from
\* the next_offset of the sentinel, the new first region or, the list being
\* empty now, the end-of-list marker
C22_SkipAfterSlowPathAndFree ==
  [][ /\ \A b \in live' \ live :
           IF RoundUp(b.size) = JMEM_ALIGNMENT
           THEN jmem_heap_list_skip_p' =
                  IF jmem_heap_list_skip_p = BlockStart(b)
                  THEN JMEM_HEAP_GET_ADDR_FROM_OFFSET(mem'[first_p].next_offset)
                  ELSE jmem_heap_list_skip_p
           ELSE jmem_heap_list_skip_p' = PrevOf(FreeSet, BlockStart(b))
      /\ SkipAfterFree
    ]_vars

\* the fast path has just returned a block and the hint is a node further up
\* the list, not the sentinel that preceded the consumed region
C22_Witness ==
  /\ pc = "idle"
  /\ IsReqTrace
  /\ ret # NULL
  /\ \E b \in live : b.ptr = ret /\ ~b.stored /\ RoundUp(b.size) = JMEM_ALIGNMENT
  /\ jmem_heap_list_skip_p \in FreeSet
  /\ jmem_heap_list_skip_p # FirstNode

(***************************************************************************)
(* C23  The skip hint is only an accelerator: from every reachable state,  *)
(* every free of a live block with its size leaves the free list,          *)
(* jmem_heap_allocated_size and jmem_heap_limit that the same free leaves  *)
(* when its insertion walk starts at the sentinel instead of at            *)
(* jmem_heap_list_skip_p.                                                  *)
(***************************************************************************)
\* the free of b with the hint at the sentinel: the walk starts at the head
FreeFromHead(b) ==
  LET h == [Heap EXCEPT !.list_skip_p = first_p] IN
  IF b.stored
  THEN jmem_heap_free_block(h, b.ptr - SizeofFree, mem[b.ptr - SizeofFree].size)
  ELSE jmem_heap_free_block(h, b.ptr, b.size)

C23_SkipOnlyAccelerates ==
  [][ \A b \in live \ live' :
        LET head == FreeFromHead(b) IN
        /\ mem' = head.mem
        /\ jmem_heap_allocated_size' = head.allocated_size
        /\ jmem_heap_limit' = head.limit
        /\ ~head.bad
        /\ ~assert_failed' ]_vars

\* a free has just started its walk at the hint, and the hint it left is a
\* node of the list below a block that is still live, with a node before it
C23_Witness ==
  /\ pc = "idle"
  /\ events # <<>>
  /\ events[1] \in {"free", "free_stored"}
  /\ events[2] = "skip"
  /\ jmem_heap_list_skip_p \in FreeSet
  /\ jmem_heap_list_skip_p # FirstNode
  /\ \E b \in live : BlockStart(b) > jmem_heap_list_skip_p

(***************************************************************************)
(* C24  The fast path is a shortcut of first fit: from every reachable     *)
(* state whose free list is not empty, an attempt for a request that       *)
(* rounds to JMEM_ALIGNMENT succeeds, returns the address the slow path    *)
(* started at the sentinel would return, and leaves the same free list     *)
(* and the same jmem_heap_allocated_size.                                  *)
(***************************************************************************)
\* the slow path loop run from this state for one alignment unit
SlowPathResult ==
  SlowPath([Heap EXCEPT !.ptr = NULL], first_p,
           JMEM_HEAP_GET_ADDR_FROM_OFFSET(mem[first_p].next_offset),
           JMEM_ALIGNMENT, HeapUnits + 1)

\* this step is an attempt that returned NULL: the trace of the request
\* gains a "FAIL"
FailedAttemptStep ==
  /\ events' # events
  /\ live' = live
  /\ Len(events') >= 1
  /\ \/ events'[Len(events')] = "FAIL"
     \/ /\ Len(events') >= 2
        /\ events'[Len(events')] \in {"LOW", "HIGH"}
        /\ events'[Len(events') - 1] = "FAIL"

\* the size of the request whose attempt this step is
AttemptedSize == IF pc = "idle" THEN req'.size ELSE req.size

C24_FastPathIsFirstFit ==
  [][ /\ \A b \in live' \ live :
           (~b.stored /\ RoundUp(b.size) = JMEM_ALIGNMENT) =>
             LET slow == SlowPathResult IN
             /\ b.ptr # NULL
             /\ b.ptr = slow.ptr
             /\ mem' = [s \in Slots |-> IF s = slow.ptr THEN Junk ELSE slow.mem[s]]
             /\ jmem_heap_allocated_size' = slow.allocated_size
             /\ ~assert_failed'
      /\ (FailedAttemptStep /\ RoundUp(AttemptedSize) = JMEM_ALIGNMENT) =>
           mem[first_p].next_offset = EndOffset ]_vars

\* a request of one unit has just been served from a first region of exactly
\* one unit that had successors: the block lies below the new first node and
\* the node that follows it is not adjacent to it
C24_Witness ==
  /\ pc = "idle"
  /\ IsReqTrace
  /\ ret # NULL
  /\ \E b \in live : b.ptr = ret /\ ~b.stored /\ RoundUp(b.size) = JMEM_ALIGNMENT
  /\ Len(FreeNodes) >= 2
  /\ ret < FirstNode
  /\ ret + JMEM_ALIGNMENT # FirstNode

(***************************************************************************)
(* C25  A failed attempt of jmem_heap_alloc_block_internal (no region      *)
(* fits, the result is NULL) leaves the free list, jmem_heap_allocated_size,*)
(* jmem_heap_list_skip_p and jmem_heap_limit unchanged, in every reachable *)
(* state, including those where jmem_heap_allocated_size equals            *)
(* jmem_heap_limit.                                                        *)
(***************************************************************************)
C25_FailedAttemptChangesNothing ==
  [][ FailedAttemptStep =>
        /\ mem' = mem
        /\ jmem_heap_allocated_size' = jmem_heap_allocated_size
        /\ jmem_heap_list_skip_p' = jmem_heap_list_skip_p
        /\ jmem_heap_limit' = jmem_heap_limit ]_vars

(***************************************************************************)
(* C26  No overlap: in every reachable state the live blocks, each taken   *)
(* with its size rounded up to JMEM_ALIGNMENT, are pairwise disjoint, are  *)
(* disjoint from every free region, and together with the free regions     *)
(* cover jmem_heap.area exactly.                                           *)
(***************************************************************************)
\* the live blocks and the free regions as intervals [lo, hi) of addresses
LiveRegions == {[lo |-> BlockStart(b), hi |-> BlockStart(b) + RoundUp(b.size), live |-> TRUE, id |-> b.ptr] : b \in live}
FreeRegions == {[lo |-> n, hi |-> n + mem[n].size, live |-> FALSE, id |-> n] : n \in FreeSet}
Disjoint(r1, r2) == r1.hi <= r2.lo \/ r2.hi <= r1.lo

RECURSIVE SumLengths(_)
SumLengths(regions) ==
  IF regions = {} THEN 0
  ELSE LET r == CHOOSE x \in regions : TRUE
       IN (r.hi - r.lo) + SumLengths(regions \ {r})

\* pairwise disjoint intervals inside the area whose lengths add up to the
\* length of the area cover it exactly
C26_NoOverlap ==
  /\ Cardinality(LiveRegions) = Cardinality(live)
  /\ \A r1, r2 \in LiveRegions \cup FreeRegions : r1 # r2 => Disjoint(r1, r2)
  /\ \A r \in LiveRegions \cup FreeRegions :
       area <= r.lo /\ r.lo < r.hi /\ r.hi <= area + JMEM_HEAP_AREA_SIZE
  /\ SumLengths(LiveRegions \cup FreeRegions) = JMEM_HEAP_AREA_SIZE

\* live blocks of different sizes on both sides of free regions
C26_Witness ==
  /\ Cardinality(live) >= 2
  /\ Len(FreeNodes) >= 2
  /\ \E b1, b2 \in live :
       /\ RoundUp(b1.size) # RoundUp(b2.size)
       /\ BlockStart(b1) < FirstNode
       /\ FirstNode < BlockStart(b2)

(***************************************************************************)
(* C27  In every reachable state jmem_heap_limit is a multiple of          *)
(* CONFIG_MEM_HEAP_DESIRED_LIMIT and jmem_heap_limit minus                 *)
(* jmem_heap_allocated_size is at most CONFIG_MEM_HEAP_DESIRED_LIMIT;      *)
(* after a successful allocation jmem_heap_allocated_size is strictly      *)
(* below jmem_heap_limit, and after a free jmem_heap_limit minus           *)
(* CONFIG_MEM_HEAP_DESIRED_LIMIT is strictly below                         *)
(* jmem_heap_allocated_size.                                               *)
(***************************************************************************)
LimitTight ==
  /\ jmem_heap_limit % CONFIG_MEM_HEAP_DESIRED_LIMIT = 0
  /\ jmem_heap_limit - jmem_heap_allocated_size <= CONFIG_MEM_HEAP_DESIRED_LIMIT

C27_LimitTight ==
  [][ /\ LimitTight
      /\ LimitTight'
      /\ live' \ live # {} => jmem_heap_allocated_size' < jmem_heap_limit'
      /\ live \ live' # {} =>
           jmem_heap_limit' - CONFIG_MEM_HEAP_DESIRED_LIMIT < jmem_heap_allocated_size' ]_vars

\* a free has just left the limit two steps up, strictly above what stays
\* allocated in two or more blocks
C27_Witness ==
  /\ pc = "idle"
  /\ events # <<>>
  /\ events[1] \in {"free", "free_stored"}
  /\ Cardinality(live) >= 2
  /\ jmem_heap_limit = 2 * CONFIG_MEM_HEAP_DESIRED_LIMIT
  /\ jmem_heap_allocated_size > CONFIG_MEM_HEAP_DESIRED_LIMIT
  /\ jmem_heap_allocated_size < jmem_heap_limit

C29_CodeFitsWidth ==
  cp.stage = "compressed" =>
    cp.code < 2 ^ (cp.offset_log - JMEM_ALIGNMENT_LOG)

(***************************************************************************)
(* C21  The statistics counters are inert: in every state the build with   *)
(* JMEM_STATS reaches, every allocation attempt and every free of a live   *)
(* block returns the same address and leaves the same free list,           *)
(* jmem_heap_allocated_size, jmem_heap_limit and jmem_heap_list_skip_p as  *)
(* the same call in the build without the counters.                        *)
(***************************************************************************)
\* the same heap in the build without JMEM_STATS
Uninstrumented(h) == [h EXCEPT !.stats = NoStats]

SameOutcome(h1, h2) ==
  [h1 EXCEPT !.stats = NoStats, !.note = <<>>] = [h2 EXCEPT !.stats = NoStats, !.note = <<>>]

\* the sizes jmem_heap_alloc_block_internal is called with
InternalSizes ==
  (ReqSizes \ {0}) \cup {(size + SizeofFree) % SIZE_MOD : size \in ReqSizes \ {0}}

FreedSize(b) == IF b.stored THEN mem[b.ptr - SizeofFree].size ELSE b.size

C21_CountersInert ==
  jmem_heap_stats.enabled =>
    LET plain == Uninstrumented(Heap) IN
    /\ \A size \in InternalSizes :
         SameOutcome(jmem_heap_alloc_block_internal(Heap, size),
                     jmem_heap_alloc_block_internal(plain, size))
    /\ \A b \in live :
         SameOutcome(jmem_heap_free_block(Heap, BlockStart(b), FreedSize(b)),
                     jmem_heap_free_block(plain, BlockStart(b), FreedSize(b)))

\* the instrumented build has counted allocations with waste, walks from
\* the hint and from the sentinel, and a walk of more than one iteration
C21_Witness ==
  /\ jmem_heap_stats.enabled
  /\ jmem_heap_stats.alloc_count >= 3
  /\ jmem_heap_stats.skip_count >= 1
  /\ jmem_heap_stats.nonskip_count >= 1
  /\ jmem_heap_stats.free_iter_count > jmem_heap_stats.free_count
  /\ jmem_heap_stats.peak_waste_bytes > 0

(***************************************************************************)
(* C30  In the build with JMEM_STATS jmem_heap_stats_print can be called   *)
(* in every reachable state, directly after jmem_heap_init and before any  *)
(* free included: each of its divisors, nonskip_count, alloc_count and     *)
(* free_count, is not zero.                                                *)
(***************************************************************************)
C30_PrintDivisorsNonZero ==
  (jmem_heap_stats.enabled /\ pc = "idle") => 0 \notin PrintDivisors
====
